---- MODULE Spec2Model ----
(***************************************************************************)
(* Model of the Planetary Computer example notebooks:                      *)
(*   - the storage workflow (read a NAIP image, compute an index, upload   *)
(*     the result to Blob Storage and read it back),                       *)
(*   - the JRC surface-water workflow (search, colormaps, mask and render),*)
(*   - the 3DEP elevation workflow (search, filter by resolution, stack    *)
(*     and plot).                                                          *)
(* Library calls are modelled by what the call made in the notebook does   *)
(* with the arguments the notebook passes.                                 *)
(***************************************************************************)
EXTENDS Integers, Sequences, FiniteSets, TLC

VARIABLES
    workflow,   \* what is being run: "storage", "water", "elevation", "index"
                \* or "mask"
    pc,         \* the statement the run is at
    stmt,       \* the phase of a statement that takes several steps
    error,      \* "" or the exception that ended the run
    log,        \* history: the steps taken, in order
    item,       \* <<>> or <<the STAC item the run works with>>
    catalog,    \* <<>> or <<the STAC client: its modifier>>
    archive,    \* the items the STAC API holds, in the order it lists them
    \* the storage workflow
    seeds,      \* the content of the remote NAIP asset (one seed per band)
    ds,         \* <<>> or <<the 4-band DataArray loaded from the asset>>
    ds0,        \* history: ds as it was when the read finished
    ndvi,       \* <<>> or <<the DataArray returned by xrspatial.ndvi>>
    buffer,     \* <<>> or <<the io.BytesIO object: data, pos, closed>>
    blob_client,\* <<>> or <<the name the blob client addresses>>
    container,  \* the pc-scratch container: blob name -> <<>> or <<bytes>>
    container0, \* history: the container as it was when the run began
    staged,     \* blocks staged by the upload in progress, not yet committed
    readback,   \* <<>> or <<the DataArray opened from blob_client.url>>
    \* the surface-water workflow
    items,      \* <<>> or <<the item collection the search returned>>
    cog_assets, \* the keys of the item's COG assets, in the item's order
    cmaps,      \* asset key -> colour table, for the keys stored so far
    i,          \* the index of the loop iteration in progress (from 0)
    src,        \* <<>> or <<the key of the asset whose file is open>>
    asset_data, \* <<>> or <<the masked array of the last asset read>>
    figure,     \* the images drawn so far: cell, title, data, colour table
    \* the elevation workflow
    items_low_res,  \* <<>> or <<the dicts of the items with gsd 30>>
    items_high_res, \* <<>> or <<the dicts of the items with gsd 10>>
    low_res_data,   \* <<>> or <<the array computed from items_low_res>>
    high_res_data,  \* <<>> or <<the array computed from items_high_res>>
    tasks,          \* the chunk reads of the compute() in progress, not started
    inflight,       \* the chunk reads in progress
    fetched,        \* the chunk reads that have ended
    axes,           \* the images drawn so far, one per subplot
    bbox,           \* the bounding box around the point
    \* a library call made on inputs of its own
    probe,
    \* runs of the storage notebook one after the other
    runs        \* history: how many runs have ended, and whether one uploaded

storageVars == <<seeds, ds, ds0, ndvi, buffer, blob_client, container,
                 container0, staged, readback>>

waterVars == <<items, cog_assets, cmaps, i, src, asset_data, figure>>

elevVars == <<items_low_res, items_high_res, low_res_data, high_res_data,
              tasks, inflight, fetched, axes, bbox>>

vars == <<workflow, pc, stmt, error, log, item, catalog, archive, storageVars,
          waterVars, elevVars, probe, runs>>

----
\* Bounds of the model.
Height == 2
Width == 2
MaxSample == 2
BlockSize == 4
MaxLen == 2
RasterSize == 2
HalfCells == 1
MaxCog == 7
MaxItems == 2
MaxTiles == 3
MaxBuffer == 2
MaxChunks == 2
MaxWorkers == 2
MaxRuns == 2

----
\* Numbers: a float sample is a fraction <<n, d>> in lowest terms with d > 0;
\* not-a-number is <<0, 0>>.
NaN == <<0, 0>>

Abs(n) == IF n < 0 THEN -n ELSE n

RECURSIVE GCD(_, _)
GCD(a, b) == IF b = 0 THEN a ELSE GCD(b, a % b)

IsNaN(x) == x[2] = 0

\* n / d as IEEE division of two finite numbers gives it, 0 / 0 being NaN.
Frac(n, d) ==
    IF d = 0 THEN NaN
    ELSE LET g == GCD(Abs(n), Abs(d))
             s == IF d < 0 THEN -1 ELSE 1
         IN  <<(s * n) \div g, (s * d) \div g>>

FromInt(v) == <<v, 1>>

FSub(x, y) == IF IsNaN(x) \/ IsNaN(y) THEN NaN
              ELSE Frac(x[1] * y[2] - y[1] * x[2], x[2] * y[2])

FAdd(x, y) == IF IsNaN(x) \/ IsNaN(y) THEN NaN
              ELSE Frac(x[1] * y[2] + y[1] * x[2], x[2] * y[2])

FDiv(x, y) == IF IsNaN(x) \/ IsNaN(y) THEN NaN
              ELSE Frac(x[1] * y[2], x[2] * y[1])

FNeg(x) == <<-x[1], x[2]>>

----
\* Arrays.  A DataArray is a record: dims, shape, dtype, the band coordinate,
\* data (a row-major sequence of samples for a 2-D array, one such sequence per
\* band for a 3-D one), crs, transform, name, and mem, the memory its data
\* lives in (a view shares the mem of the array it was taken from).

BandNames == <<"red", "green", "blue", "nir">>

NPix == Height * Width

Seeds == [1..4 -> 0..MaxSample]

\* The remote NAIP asset: a 4-band uint8 GeoTIFF.
NaipAsset(s) ==
    [dtype |-> "uint8", count |-> 4, height |-> Height, width |-> Width,
     crs |-> "EPSG:26917", transform |-> <<549400, 1, 2987000, -1>>,
     bands |-> [b \in 1..4 |-> [p \in 1..NPix |-> (s[b] + b * p) % (MaxSample + 1)]]]

\* rioxarray.open_rasterio(href): dims (band, y, x), band labelled 1..count.
OpenRasterio(file) ==
    [dims |-> <<"band", "y", "x">>,
     shape |-> <<file.count, file.height, file.width>>,
     dtype |-> file.dtype,
     band |-> [b \in 1..file.count |-> ToString(b)],
     data |-> file.bands,
     crs |-> file.crs, transform |-> file.transform,
     name |-> "", mem |-> "file"]

AssignCoords(da, labels) == [da EXCEPT !.band = labels]

\* .load().astype(float): a new float64 array holding the same values.
AsTypeFloat(da) ==
    [da EXCEPT !.dtype = "float64", !.mem = "ds",
               !.data = [b \in DOMAIN da.data |->
                            [p \in DOMAIN da.data[b] |-> FromInt(da.data[b][p])]]]

BandIndex(da, label) == CHOOSE b \in DOMAIN da.band : da.band[b] = label

\* da.sel(band=label): the 2-D view of one band; it shares da's memory.
Sel(da, label) ==
    [dims |-> <<"y", "x">>,
     shape |-> <<da.shape[2], da.shape[3]>>,
     dtype |-> da.dtype,
     band |-> <<label>>,
     data |-> da.data[BandIndex(da, label)],
     crs |-> da.crs, transform |-> da.transform,
     name |-> da.name, mem |-> da.mem]

----
\* xrspatial.ndvi(nir_agg, red_agg, name="ndvi").

\* The samples reach here as whole numbers read from a uint8 image, which the
\* cast to float32 (astype('f4')) keeps exactly; the quotient is kept as an
\* exact fraction.

\* A mutant: the output buffer starts filled with zeros.
NormalizedRatioZeroFill(arr1, arr2) ==
    [p \in DOMAIN arr1 |->
        LET numerator == FSub(arr1[p], arr2[p])
            denominator == FAdd(arr1[p], arr2[p])
        IN  IF denominator = FromInt(0) THEN FromInt(0)
            ELSE FDiv(numerator, denominator)]

\* A mutant: the numerator is the first band alone.
NormalizedRatioNoDifference(arr1, arr2) ==
    [p \in DOMAIN arr1 |->
        LET numerator == arr1[p]
            denominator == FAdd(arr1[p], arr2[p])
        IN  IF denominator = FromInt(0) THEN NaN
            ELSE FDiv(numerator, denominator)]

\* _normalized_ratio: per pixel (arr1 - arr2) / (arr1 + arr2); the output starts
\* filled with NaN and a pixel whose denominator is 0.0 is left as it is.
NormalizedRatio(arr1, arr2) ==
    [p \in DOMAIN arr1 |->
        LET numerator == FSub(arr1[p], arr2[p])
            denominator == FAdd(arr1[p], arr2[p])
        IN  IF denominator = FromInt(0) THEN NaN
            ELSE FDiv(numerator, denominator)]

\* A mutant: the result is written into the first argument's memory.
NdviInPlace(nir_agg, red_agg) ==
    IF nir_agg.shape # red_agg.shape
    THEN [ret |-> <<>>, nir_data |-> nir_agg.data, red_data |-> red_agg.data]
    ELSE LET out == NormalizedRatio(nir_agg.data, red_agg.data)
         IN  [ret |-> <<[dims |-> nir_agg.dims, shape |-> nir_agg.shape,
                         dtype |-> "float32", band |-> nir_agg.band,
                         data |-> out,
                         crs |-> nir_agg.crs, transform |-> nir_agg.transform,
                         name |-> "ndvi", mem |-> nir_agg.mem]>>,
              nir_data |-> out, red_data |-> red_agg.data]

\* The call returns: ret, <<>> (ValueError: the shapes differ) or <<the new
\* array>>; and nir_data / red_data, the data of the two arguments after the
\* call (the function reads them and writes to a buffer of its own).
Ndvi(nir_agg, red_agg) ==
    IF nir_agg.shape # red_agg.shape
    THEN [ret |-> <<>>, nir_data |-> nir_agg.data, red_data |-> red_agg.data]
    ELSE [ret |-> <<[dims |-> nir_agg.dims, shape |-> nir_agg.shape,
                     dtype |-> "float32", band |-> nir_agg.band,
                     data |-> NormalizedRatio(nir_agg.data, red_agg.data),
                     crs |-> nir_agg.crs, transform |-> nir_agg.transform,
                     name |-> "ndvi", mem |-> "ndvi_out"]>>,
          nir_data |-> nir_agg.data, red_data |-> red_agg.data]

----
\* The raster container (GeoTIFF / COG) and the in-memory buffer.
\* A byte stream is a sequence of tokens: seven header tokens (magic, dtype,
\* band count, height, width, crs, transform) and then the samples, band after
\* band, row-major.

HeaderFields == <<"magic", "dtype", "count", "height", "width", "crs", "transform">>

HeaderLen == Len(HeaderFields)

RECURSIVE Flatten(_)
Flatten(seqs) == IF seqs = <<>> THEN <<>> ELSE Head(seqs) \o Flatten(Tail(seqs))

\* A mutant: the writer leaves out the coordinate reference system.
ToRasterNoCrs(da) ==
    LET bands == IF Len(da.dims) = 2 THEN <<da.data>> ELSE da.data
        h == da.shape[Len(da.shape) - 1]
        w == da.shape[Len(da.shape)]
    IN  <<"TIFF", da.dtype, Len(bands), h, w, "", da.transform>>
        \o Flatten(bands)

\* What da.rio.to_raster(buffer, driver="COG") writes: a 2-D array is written
\* as one band, with the array's own dtype, crs and transform.
ToRaster(da) ==
    LET bands == IF Len(da.dims) = 2 THEN <<da.data>> ELSE da.data
        h == da.shape[Len(da.shape) - 1]
        w == da.shape[Len(da.shape)]
    IN  <<"TIFF", da.dtype, Len(bands), h, w, da.crs, da.transform>>
        \o Flatten(bands)

\* Whether a byte stream is a readable raster file.
IsRaster(bytes) ==
    /\ Len(bytes) >= HeaderLen
    /\ bytes[1] = "TIFF"
    /\ Len(bytes) = HeaderLen + bytes[3] * bytes[4] * bytes[5]

\* The raster file a readable byte stream holds.
ParseRaster(bytes) ==
    LET n == bytes[4] * bytes[5]
    IN  [dtype |-> bytes[2], count |-> bytes[3], height |-> bytes[4],
         width |-> bytes[5], crs |-> bytes[6], transform |-> bytes[7],
         bands |-> [b \in 1..bytes[3] |->
                      SubSeq(bytes, HeaderLen + (b - 1) * n + 1, HeaderLen + b * n)]]

\* io.BytesIO(): an empty open buffer, positioned at 0.
BytesIO == [data |-> <<>>, pos |-> 0, closed |-> FALSE]

\* buffer.write(bytes) at the current position (here always the end).
Write(buf, bytes) ==
    [buf EXCEPT !.data = SubSeq(buf.data, 1, buf.pos) \o bytes,
                !.pos = buf.pos + Len(bytes)]

Seek(buf, offset) == [buf EXCEPT !.pos = offset]

Min(a, b) == IF a < b THEN a ELSE b

\* buffer.read(n): the bytes from the current position, at most n of them.
ReadBytes(buf, n) == SubSeq(buf.data, buf.pos + 1, Min(Len(buf.data), buf.pos + n))

----
\* Geometry of rasterio.mask.mask.  The plane is a grid of square cells; a
\* pixel is PixelSize x PixelSize cells, PixelSize odd, so that the centre of
\* a pixel lies inside its middle cell.  Pixel (c, r) covers the cells with
\* column in PixelSize*(c-1)+1 .. PixelSize*c, and rows likewise.  The raster
\* has RasterSize x RasterSize pixels; the plane reaches one pixel further to
\* the right of it and below it.

PixelSize == 2 * HalfCells + 1

WorldCells == PixelSize * (RasterSize + 1)

\* A polygon: the cells x0..x1 by y0..y1, less (notch) the quarter of them at
\* the corner (x1, y0).  Its bounding box is x0..x1 by y0..y1.
Polygons ==
    [x0 : 1..WorldCells, x1 : 1..WorldCells,
     y0 : 1..WorldCells, y1 : 1..WorldCells, notch : BOOLEAN]

WellFormed(P) ==
    /\ P.x0 <= P.x1
    /\ P.y0 <= P.y1
    /\ P.notch => (P.x1 - P.x0 >= 1 /\ P.y1 - P.y0 >= 1)

InNotch(P, cx, cy) ==
    /\ P.notch
    /\ cx > P.x0 + (P.x1 - P.x0) \div 2
    /\ cy <= P.y0 + (P.y1 - P.y0) \div 2

\* Whether cell (cx, cy) is part of the polygon.
InPolygon(P, cx, cy) ==
    /\ cx \in P.x0..P.x1
    /\ cy \in P.y0..P.y1
    /\ ~InNotch(P, cx, cy)

PixelCells(k) == (PixelSize * (k - 1) + 1)..(PixelSize * k)

CentreCell(k) == PixelSize * (k - 1) + HalfCells + 1

\* The pixel a cell belongs to.
PixelOf(cell) == (cell + PixelSize - 1) \div PixelSize

\* Any part of pixel (c, r) intersects the polygon.
Touches(P, c, r) ==
    \E cx \in PixelCells(c), cy \in PixelCells(r) : InPolygon(P, cx, cy)

\* The centre of pixel (c, r) is within the polygon.
CentreInside(P, c, r) == InPolygon(P, CentreCell(c), CentreCell(r))

\* The whole of pixel (c, r) is within the polygon.
Covers(P, c, r) ==
    \A cx \in PixelCells(c), cy \in PixelCells(r) : InPolygon(P, cx, cy)

\* The pixels of band 1 of the k-th asset's file: pixels[c][r].
SourcePixels(k) ==
    [c \in 1..RasterSize |->
        [r \in 1..RasterSize |-> 16 * k + RasterSize * (r - 1) + c]]

\* A mutant: the call without crop=True.
CropDefault == FALSE

\* The keywords of the call: rasterio.mask.mask(src, [area_of_interest],
\* crop=True, nodata=255); all_touched is not given and keeps its default.
Crop == TRUE

Nodata == 255

\* A mutant: the call with all_touched=True.
AllTouchedSet == TRUE

AllTouched == FALSE

Max(a, b) == IF a > b THEN a ELSE b

\* geometry_window: the bounds of the shape, rounded outward to whole pixels
\* and intersected with the raster.
GeometryWindow(P) ==
    [c0 |-> Max(PixelOf(P.x0), 1), c1 |-> Min(PixelOf(P.x1), RasterSize),
     r0 |-> Max(PixelOf(P.y0), 1), r1 |-> Min(PixelOf(P.y1), RasterSize)]

FullWindow == [c0 |-> 1, c1 |-> RasterSize, r0 |-> 1, r1 |-> RasterSize]

Overlaps(P) ==
    /\ PixelOf(P.x0) <= RasterSize
    /\ PixelOf(P.y0) <= RasterSize

\* geometry_mask / rasterize: the pixels the shape burns.
Burned(P, c, r) ==
    IF AllTouched THEN Touches(P, c, r) ELSE CentreInside(P, c, r)

\* rasterio.mask.mask(dataset, [P], crop, nodata): <<>> when the shape does not
\* overlap the raster (ValueError), else <<the window and the pixels of band 1
\* in it>>; a pixel the shape does not burn is filled with nodata.
Mask(pixels, P) ==
    IF Crop /\ ~Overlaps(P) THEN <<>>
    ELSE LET win == IF Crop THEN GeometryWindow(P) ELSE FullWindow
         IN  <<[window |-> win,
                data |-> [c \in win.c0..win.c1 |->
                            [r \in win.r0..win.r1 |->
                               IF Burned(P, c, r) THEN pixels[c][r] ELSE Nodata]]]>>

----
\* The STAC API and its client.

\* A STAC item: its collection, its footprint (a polygon), its gsd property,
\* its assets, and whether the asset hrefs carry an access token.
StacItem(id, collection, footprint, gsd, assets) ==
    [id |-> id, collection |-> collection, footprint |-> footprint,
     gsd |-> gsd, signed |-> FALSE, assets |-> assets]

\* Whether two polygons have a point in common.
Intersects(A, B) ==
    \E cx \in A.x0..A.x1, cy \in A.y0..A.y1 :
        InPolygon(A, cx, cy) /\ InPolygon(B, cx, cy)

\* planetary_computer.sign_inplace(item): every asset href gets a token.
SignInplace(it) == [it EXCEPT !.signed = TRUE]

\* A mutant: the client is opened without a modifier.
ModifierNone == "none"

\* Client.open(..., modifier=planetary_computer.sign_inplace)
Modifier == "sign_inplace"

\* The client calls its modifier on every item it hands out.
CallModifier(client, it) ==
    IF client.modifier = "sign_inplace" THEN SignInplace(it) ELSE it

\* The items of `api` the search matches, in the order the API lists them.
RECURSIVE Matching(_, _, _)
Matching(api, collections, geom) ==
    IF api = <<>> THEN <<>>
    ELSE LET it == Head(api)
             rest == Matching(Tail(api), collections, geom)
         IN  IF it.collection \in collections /\ Intersects(it.footprint, geom)
             THEN <<it>> \o rest
             ELSE rest

\* A mutant: the search leaves out the geographic filter.
RECURSIVE InCollections(_, _)
InCollections(api, collections) ==
    IF api = <<>> THEN <<>>
    ELSE IF Head(api).collection \in collections
         THEN <<Head(api)>> \o InCollections(Tail(api), collections)
         ELSE InCollections(Tail(api), collections)

StacSearchAnywhere(client, api, collections, geom) ==
    LET hits == InCollections(api, collections)
    IN  [k \in DOMAIN hits |-> CallModifier(client, hits[k])]

\* catalog.search(collections=..., intersects=geom | bbox=geom) followed by
\* item_collection() / get_items(): every page of the result, each item
\* passed through the client's modifier.
StacSearch(client, api, collections, geom) ==
    LET hits == Matching(api, collections, geom)
    IN  [k \in DOMAIN hits |-> CallModifier(client, hits[k])]

\* The point the elevation workflow looks at, and the bounding box that
\* reaches b cells from it on every side:
\* [longitude - buffer, latitude - buffer, longitude + buffer, latitude + buffer]
Point == [x |-> MaxBuffer + 1, y |-> MaxBuffer + 1]

Bbox(b) ==
    [x0 |-> Point.x - b, x1 |-> Point.x + b,
     y0 |-> Point.y - b, y1 |-> Point.y + b, notch |-> FALSE]

\* item.to_dict(): a GeoJSON feature; the asset hrefs are written as they are.
ToDict(it) ==
    [type |-> "Feature", id |-> it.id, collection |-> it.collection,
     geometry |-> it.footprint, properties |-> [gsd |-> it.gsd],
     href_signed |-> it.signed, assets |-> it.assets]

\* A mutant: the upload is issued before the raster is written to the buffer.
StorageProgramUploadFirst ==
    <<"Client.open", "get_item", "open_rasterio", "ndvi", "plot",
      "ContainerClient", "BytesIO", "get_blob_client", "upload_blob",
      "to_raster", "seek", "with_exit", "readback">>

----
\* The storage workflow: the statements of its code cells, in order.
StorageProgram ==
    <<"Client.open", "get_item", "open_rasterio", "ndvi", "plot",
      "ContainerClient", "BytesIO", "to_raster", "seek", "get_blob_client",
      "upload_blob", "with_exit", "readback">>

Index(prog, name) == CHOOSE k \in 1..Len(prog) : prog[k] = name

BlobName == "ndvi-wb.tif"

BlobNames == {"ndvi-wb.tif", "other.tif"}

\* A mutant: the keyword is left out, and the client's default applies.
OverwriteDefault == FALSE

\* upload_blob(buffer, overwrite=True)
Overwrite == TRUE

\* An object some earlier program left in the container.
OldBlob == <<"TIFF", "float32", 1, 1, 1, "EPSG:4326", <<0, 1, 0, -1>>, <<7, 1>>>>

Event(kind, op, ins, out) == [kind |-> kind, op |-> op, ins |-> ins, out |-> out]

\* The step that dereferences an asset href; signed: the href carried a token.
OpenEvent(op, ins, out, signed) ==
    [kind |-> "read", op |-> op, ins |-> ins, out |-> out, signed |-> signed]

\* The extent of one raster file, in cells.
RasterExtent ==
    [x0 |-> 1, x1 |-> PixelSize * RasterSize, y0 |-> 1,
     y1 |-> PixelSize * RasterSize, notch |-> FALSE]

\* The NAIP item the storage workflow asks for by id.
NaipItem ==
    StacItem("fl_m_2608005_nw_17_060_20191215_20200113", "naip", RasterExtent,
             1, <<[key |-> "image", media_type |-> "COG"]>>)

\* A mutant: a statement is run again after it has raised.
AtStorageAgain(name) ==
    /\ workflow = "storage"
    /\ pc \in 1..Len(StorageProgram)
    /\ StorageProgram[pc] = name

AtStorage(name) ==
    /\ workflow = "storage"
    /\ error = ""
    /\ pc \in 1..Len(StorageProgram)
    /\ StorageProgram[pc] = name

\* Whether the statement at pc is inside the with io.BytesIO() block.
InWith ==
    /\ workflow = "storage"
    /\ pc > Index(StorageProgram, "BytesIO")
    /\ pc < Index(StorageProgram, "with_exit")

CloseBuffer(b) == IF b = <<>> THEN b ELSE <<[data |-> <<>>, pos |-> 0, closed |-> TRUE]>>

\* An exception ends the run; leaving a with block on the way closes the buffer
\* or the file the block opened.
Raise(e) ==
    /\ error' = e
    /\ buffer' = IF InWith THEN CloseBuffer(buffer) ELSE buffer
    /\ src' = <<>>
    /\ UNCHANGED <<workflow, pc, stmt, log, item, seeds, ds, ds0, ndvi,
                   blob_client, container, container0, staged, readback,
                   catalog, archive, items, cog_assets, cmaps, i, asset_data,
                   figure, elevVars, probe, runs>>

\* catalog = pystac_client.Client.open(..., modifier=sign_inplace)
ClientOpen ==
    /\ AtStorage("Client.open")
    /\ \E ok \in BOOLEAN :
         IF ok
         THEN /\ catalog' = <<[modifier |-> Modifier]>>
              /\ pc' = pc + 1
              /\ UNCHANGED <<elevVars, archive, waterVars, probe, runs, workflow, stmt, seeds, item, ds, ds0, ndvi, buffer,
                             blob_client, container, container0, staged,
                             readback, error, log>>
         ELSE Raise("APIError")

\* item = catalog.get_collection("naip").get_item(...)
GetItem ==
    /\ AtStorage("get_item")
    /\ \E ok \in BOOLEAN :
         IF ~ok THEN Raise("APIError")
         ELSE IF catalog = <<>> THEN Raise("NameError")
         ELSE /\ item' = <<CallModifier(catalog[1], NaipItem)>>
              /\ log' = Append(log, Event("query", "get_item", {}, <<"item">>))
              /\ pc' = pc + 1
              /\ UNCHANGED <<elevVars, catalog, archive, waterVars, probe, runs, workflow, stmt, seeds, ds, ds0, ndvi, buffer,
                             blob_client, container, container0, staged,
                             readback, error>>

\* ds = open_rasterio(href).assign_coords(band=[...]).load().astype(float)
ReadImage ==
    /\ AtStorage("open_rasterio")
    /\ IF item = <<>> THEN Raise("NameError")
       ELSE \E ok \in BOOLEAN :
         IF ok
         THEN /\ ds' = <<AsTypeFloat(AssignCoords(OpenRasterio(NaipAsset(seeds)),
                                                   BandNames))>>
              /\ ds0' = ds'
              /\ log' = Append(log, OpenEvent("open_rasterio", {<<"item">>},
                                              <<"ds">>, item[1].signed))
              /\ pc' = pc + 1
              /\ UNCHANGED <<elevVars, catalog, archive, waterVars, probe, runs, workflow, stmt, seeds, item, ndvi, buffer,
                             blob_client, container, container0, staged,
                             readback, error>>
         ELSE Raise("RasterioIOError")

\* ndvi = xrspatial.ndvi(ds.sel(band="red"), ds.sel(band="nir"))
\* The two arguments are views of ds: what the call leaves in them is what ds
\* holds afterwards.
ComputeNdvi ==
    /\ AtStorage("ndvi")
    /\ IF ds = <<>> THEN Raise("NameError")
       ELSE LET r == Ndvi(Sel(ds[1], "red"), Sel(ds[1], "nir"))
            IN  IF r.ret = <<>> THEN Raise("ValueError")
                ELSE /\ ndvi' = r.ret
                     /\ ds' = <<[ds[1] EXCEPT
                                   !.data[BandIndex(ds[1], "red")] = r.nir_data,
                                   !.data[BandIndex(ds[1], "nir")] = r.red_data]>>
                     /\ log' = Append(log, Event("transform", "ndvi", {<<"ds">>}, <<"ndvi">>))
                     /\ pc' = pc + 1
                     /\ UNCHANGED <<elevVars, catalog, archive, waterVars, probe, runs, workflow, stmt, seeds, item, ds0, buffer,
                                    blob_client, container, container0, staged,
                                    readback, error>>

\* ndvi.isel(...).plot.imshow(ax=ax)
Plot ==
    /\ AtStorage("plot")
    /\ IF ndvi = <<>> THEN Raise("NameError")
       ELSE /\ log' = Append(log, Event("sink", "plot", {<<"ndvi">>}, <<>>))
            /\ pc' = pc + 1
            /\ UNCHANGED <<elevVars, catalog, archive, waterVars, probe, runs, workflow, stmt, seeds, item, ds, ds0, ndvi, buffer,
                           blob_client, container, container0, staged,
                           readback, error>>

\* container_client = azure.storage.blob.ContainerClient(...): no request is made.
MakeContainerClient ==
    /\ AtStorage("ContainerClient")
    /\ pc' = pc + 1
    /\ UNCHANGED <<elevVars, catalog, archive, waterVars, probe, runs, workflow, stmt, seeds, item, ds, ds0, ndvi, buffer,
                   blob_client, container, container0, staged, readback,
                   error, log>>

\* with io.BytesIO() as buffer:
EnterWith ==
    /\ AtStorage("BytesIO")
    /\ buffer' = <<BytesIO>>
    /\ pc' = pc + 1
    /\ UNCHANGED <<elevVars, catalog, archive, waterVars, probe, runs, workflow, stmt, seeds, item, ds, ds0, ndvi, blob_client,
                   container, container0, staged, readback, error, log>>

\* ndvi.rio.to_raster(buffer, driver="COG")
WriteRaster ==
    /\ AtStorage("to_raster")
    /\ IF ndvi = <<>> \/ buffer = <<>> THEN Raise("NameError")
       ELSE /\ buffer' = <<Write(buffer[1], ToRaster(ndvi[1]))>>
            /\ log' = Append(log, Event("transform", "to_raster", {<<"ndvi">>}, <<"buffer">>))
            /\ pc' = pc + 1
            /\ UNCHANGED <<elevVars, catalog, archive, waterVars, probe, runs, workflow, stmt, seeds, item, ds, ds0, ndvi,
                           blob_client, container, container0, staged,
                           readback, error>>

\* A mutant: the read position is left where the writer stopped.
SeekStartSkipped ==
    /\ AtStorage("seek")
    /\ IF buffer = <<>> THEN Raise("NameError")
       ELSE /\ buffer' = <<Seek(buffer[1], buffer[1].pos)>>
            /\ pc' = pc + 1
            /\ UNCHANGED <<elevVars, catalog, archive, waterVars, probe, runs, workflow, stmt, seeds, item, ds, ds0, ndvi,
                           blob_client, container, container0, staged,
                           readback, error, log>>

\* buffer.seek(0)
SeekStart ==
    /\ AtStorage("seek")
    /\ IF buffer = <<>> THEN Raise("NameError")
       ELSE /\ buffer' = <<Seek(buffer[1], 0)>>
            /\ pc' = pc + 1
            /\ UNCHANGED <<elevVars, catalog, archive, waterVars, probe, runs, workflow, stmt, seeds, item, ds, ds0, ndvi,
                           blob_client, container, container0, staged,
                           readback, error, log>>

\* A mutant: each run after the first writes under a name of its own.
GetBlobClientPerRun ==
    /\ AtStorage("get_blob_client")
    /\ blob_client' = <<IF runs.ended = 0 THEN BlobName ELSE "other.tif">>
    /\ pc' = pc + 1
    /\ UNCHANGED <<elevVars, catalog, archive, waterVars, probe, runs, workflow, stmt, seeds, item, ds, ds0, ndvi, buffer,
                   container, container0, staged, readback, error, log>>

\* blob_client = container_client.get_blob_client("ndvi-wb.tif")
GetBlobClient ==
    /\ AtStorage("get_blob_client")
    /\ blob_client' = <<BlobName>>
    /\ pc' = pc + 1
    /\ UNCHANGED <<elevVars, catalog, archive, waterVars, probe, runs, workflow, stmt, seeds, item, ds, ds0, ndvi, buffer,
                   container, container0, staged, readback, error, log>>

\* blob_client.upload_blob(buffer, overwrite=True), a block blob: the client
\* reads the stream from its current position block by block and stages each
\* block; staged blocks are not part of the blob until the block list is
\* committed, which replaces the blob's content in one step.
UploadBegin ==
    /\ AtStorage("upload_blob")
    /\ stmt = 0
    /\ IF blob_client = <<>> \/ buffer = <<>> THEN Raise("NameError")
       ELSE /\ stmt' = 1
            /\ staged' = <<>>
            /\ log' = Append(log, Event("sink", "upload_blob", {<<"buffer">>}, <<"blob">>))
            /\ UNCHANGED <<elevVars, catalog, archive, waterVars, probe, runs, workflow, pc, seeds, item, ds, ds0, ndvi, buffer,
                           blob_client, container, container0, readback, error>>

\* A mutant: each block is written straight into the visible blob.
StageBlockVisible ==
    /\ AtStorage("upload_blob")
    /\ stmt = 1
    /\ buffer[1].pos < Len(buffer[1].data)
    /\ \E ok \in BOOLEAN :
         IF ok
         THEN LET block == ReadBytes(buffer[1], BlockSize)
              IN  /\ staged' = Append(staged, block)
                  /\ container' = [container EXCEPT
                                     ![blob_client[1]] = <<Flatten(staged')>>]
                  /\ buffer' = <<Seek(buffer[1], buffer[1].pos + Len(block))>>
                  /\ UNCHANGED <<elevVars, catalog, archive, waterVars, probe, runs, workflow, pc, stmt, seeds, item, ds, ds0, ndvi,
                                 blob_client, container0, readback, error, log>>
         ELSE Raise("HttpResponseError")

StageBlock ==
    /\ AtStorage("upload_blob")
    /\ stmt = 1
    /\ buffer[1].pos < Len(buffer[1].data)
    /\ \E ok \in BOOLEAN :
         IF ok
         THEN LET block == ReadBytes(buffer[1], BlockSize)
              IN  /\ staged' = Append(staged, block)
                  /\ buffer' = <<Seek(buffer[1], buffer[1].pos + Len(block))>>
                  /\ UNCHANGED <<elevVars, catalog, archive, waterVars, probe, runs, workflow, pc, stmt, seeds, item, ds, ds0, ndvi,
                                 blob_client, container, container0, readback,
                                 error, log>>
         ELSE Raise("HttpResponseError")

CommitBlockList ==
    /\ AtStorage("upload_blob")
    /\ stmt = 1
    /\ buffer[1].pos >= Len(buffer[1].data)
    /\ \E ok \in BOOLEAN :
         IF ~ok THEN Raise("HttpResponseError")
         ELSE IF ~Overwrite /\ container[blob_client[1]] # <<>>
         THEN Raise("ResourceExistsError")
         ELSE /\ container' = [container EXCEPT
                                 ![blob_client[1]] = <<Flatten(staged)>>]
              /\ staged' = <<>>
              /\ stmt' = 0
              /\ pc' = pc + 1
              /\ UNCHANGED <<elevVars, catalog, archive, waterVars, probe, runs, workflow, seeds, item, ds, ds0, ndvi, buffer,
                             blob_client, container0, readback, error, log>>

\* The end of the with block: the buffer is closed.
ExitWith ==
    /\ AtStorage("with_exit")
    /\ buffer' = CloseBuffer(buffer)
    /\ pc' = pc + 1
    /\ UNCHANGED <<elevVars, catalog, archive, waterVars, probe, runs, workflow, stmt, seeds, item, ds, ds0, ndvi, blob_client,
                   container, container0, staged, readback, error, log>>

\* rioxarray.open_rasterio(blob_client.url)
ReadBack ==
    /\ AtStorage("readback")
    /\ IF blob_client = <<>> THEN Raise("NameError")
       ELSE \E ok \in BOOLEAN :
         IF ~ok \/ container[blob_client[1]] = <<>>
            \/ ~IsRaster(container[blob_client[1]][1])
         THEN Raise("RasterioIOError")
         ELSE /\ readback' = <<OpenRasterio(ParseRaster(container[blob_client[1]][1]))>>
              /\ log' = Append(log, Event("read", "readback", {<<"blob">>}, <<"readback">>))
              /\ pc' = pc + 1
              /\ UNCHANGED <<elevVars, catalog, archive, waterVars, probe, runs, workflow, stmt, seeds, item, ds, ds0, ndvi, buffer,
                             blob_client, container, container0, staged, error>>

StorageNext ==
    \/ ClientOpen \/ GetItem \/ ReadImage \/ ComputeNdvi \/ Plot
    \/ MakeContainerClient \/ EnterWith \/ WriteRaster \/ SeekStart
    \/ GetBlobClient \/ UploadBegin \/ StageBlock \/ CommitBlockList
    \/ ExitWith \/ ReadBack

\* Nothing has run yet.
Blank ==
    /\ pc = 1
    /\ stmt = 0
    /\ error = ""
    /\ log = <<>>
    /\ item = <<>>
    /\ catalog = <<>>
    /\ items_low_res = <<>>
    /\ items_high_res = <<>>
    /\ low_res_data = <<>>
    /\ high_res_data = <<>>
    /\ tasks = <<>>
    /\ inflight = {}
    /\ fetched = {}
    /\ axes = <<>>
    /\ ds = <<>>
    /\ ds0 = <<>>
    /\ ndvi = <<>>
    /\ buffer = <<>>
    /\ blob_client = <<>>
    /\ staged = <<>>
    /\ readback = <<>>
    /\ items = <<>>
    /\ cog_assets = <<>>
    /\ cmaps = <<>>
    /\ i = 0
    /\ src = <<>>
    /\ asset_data = <<>>
    /\ figure = <<>>
    /\ runs = [ended |-> 0, uploaded |-> FALSE]

NoSeeds == [b \in 1..4 |-> 0]

EmptyContainer == [n \in BlobNames |-> <<>>]

StorageInit ==
    /\ workflow = "storage"
    /\ Blank
    /\ seeds \in Seeds
    /\ container \in [BlobNames -> {<<>>, <<OldBlob>>}]
    /\ container0 = container
    /\ bbox = Bbox(0)
    /\ archive = <<>>
    /\ probe = <<>>

----
\* The surface-water workflow.

WaterProgram ==
    <<"Client.open", "search", "select_item", "cog_assets", "cmaps_loop",
      "figure", "render_loop">>

CogKeys ==
    <<"change", "extent", "occurrence", "recurrence", "seasonality", "transitions">>

CogKey(k) == IF k <= Len(CogKeys) THEN CogKeys[k] ELSE ToString(k)

\* The number of the file an asset key names.
FileOf(key) == CHOOSE k \in 1..(MaxCog + Len(CogKeys)) : CogKey(k) = key

\* An item with n COG assets, a preview after the first of them and a
\* tilejson at the end.
ItemWith(n) ==
    StacItem("jrc-gsw", "jrc-gsw", RasterExtent, 30,
        [k \in 1..Min(n, 1) |-> [key |-> CogKey(k), media_type |-> "COG"]]
        \o <<[key |-> "rendered_preview", media_type |-> "PNG"]>>
        \o [k \in 1..Max(n - 1, 0) |-> [key |-> CogKey(k + 1), media_type |-> "COG"]]
        \o <<[key |-> "tilejson", media_type |-> "JSON"]>>)

\* What the catalog may hold for the area: no item, or up to MaxItems items,
\* the first with any number of COG assets up to MaxCog.
FoundSets ==
    {<<>>} \cup
    {<<ItemWith(n)>>
        \o [k \in 1..m |-> [ItemWith(1) EXCEPT !.id = "jrc-gsw-" \o ToString(k)]] :
        n \in 0..MaxCog, m \in 0..(MaxItems - 1)}

\* area_of_interest, at the scale of the model: it lies within the raster and
\* its sides do not fall on pixel edges.
AreaOfInterest == [x0 |-> 2, x1 |-> 5, y0 |-> 2, y1 |-> 6, notch |-> TRUE]

\* Items the search must leave out: one of jrc-gsw that lies within the
\* bounding box of the area of interest but in the part the polygon leaves
\* out, one of another collection over the area, one of jrc-gsw far away.
NotchItem ==
    StacItem("jrc-gsw-notch", "jrc-gsw",
             [x0 |-> AreaOfInterest.x0
                       + (AreaOfInterest.x1 - AreaOfInterest.x0) \div 2 + 1,
              x1 |-> AreaOfInterest.x1,
              y0 |-> AreaOfInterest.y0,
              y1 |-> AreaOfInterest.y0
                       + (AreaOfInterest.y1 - AreaOfInterest.y0) \div 2,
              notch |-> FALSE],
             30, <<[key |-> CogKey(1), media_type |-> "COG"]>>)

OtherItem ==
    StacItem("io-lulc", "io-lulc", RasterExtent, 10,
             <<[key |-> "data", media_type |-> "COG"]>>)

FarItem ==
    StacItem("jrc-gsw-far", "jrc-gsw",
             [x0 |-> PixelSize * RasterSize + 1, x1 |-> WorldCells,
              y0 |-> 1, y1 |-> PixelSize * RasterSize, notch |-> FALSE],
             30, <<[key |-> CogKey(1), media_type |-> "COG"]>>)

\* What the STAC API may hold: the items over the area, alone or among
\* items the search must leave out.
WaterArchives ==
    FoundSets \cup {<<NotchItem, OtherItem>> \o f \o <<FarItem>> : f \in FoundSets}

\* The palette embedded in band 1 of file k: sample value -> (r, g, b, a).
PaletteLen == 256

ColorScale == 256

Palette(k) == [v \in 0..(PaletteLen - 1) |-> <<(k * v) % 256, v, 255 - v, 255>>]

\* A mutant: the palette entries are taken as they are, not divided.
ColorTableUnscaled(colormap_def) ==
    [n \in 1..PaletteLen |->
        [comp \in 1..4 |-> FromInt(colormap_def[n - 1][comp])]]

\* [np.array(colormap_def[i]) / 256 for i in range(256)]
ColorTable(colormap_def) ==
    [n \in 1..PaletteLen |->
        [comp \in 1..4 |-> Frac(colormap_def[n - 1][comp], ColorScale)]]

\* fig.add_subplot(int(f"23{i+1}")): a grid of 2 rows and 3 columns.
GridRows == 2

GridCols == 3

\* The number of decimal digits of n.
RECURSIVE Digits(_)
Digits(n) == IF n < 10 THEN 1 ELSE 1 + Digits(n \div 10)

\* A mutant: every asset is given the specification of the first cell.
SubplotCodeFirst(k) == (GridRows * 10 + GridCols) * 10 + 1

\* int(f"23{i+1}"): the digits 2 and 3 followed by those of i + 1.
SubplotCode(k) == (GridRows * 10 + GridCols) * (10 ^ Digits(k + 1)) + (k + 1)

\* fig.add_subplot(code): an integer must have three digits, which are the
\* rows, the columns and the cell (1 .. rows * cols); anything else is a
\* ValueError (<<>>).
AddSubplot(code) ==
    IF code < 100 \/ code > 999 THEN <<>>
    ELSE LET rows == code \div 100
             cols == (code \div 10) % 10
             num == code % 10
         IN  IF num < 1 \/ num > rows * cols THEN <<>>
             ELSE <<[rows |-> rows, cols |-> cols, cell |-> num]>>

AtWater(name) ==
    /\ workflow = "water"
    /\ error = ""
    /\ pc \in 1..Len(WaterProgram)
    /\ WaterProgram[pc] = name

\* catalog = pystac_client.Client.open(..., modifier=sign_inplace)
WaterClientOpen ==
    /\ AtWater("Client.open")
    /\ \E ok \in BOOLEAN :
         IF ok
         THEN /\ catalog' = <<[modifier |-> Modifier]>>
              /\ pc' = pc + 1
              /\ UNCHANGED <<workflow, stmt, error, log, item, storageVars, elevVars, archive,
                             waterVars, probe, runs>>
         ELSE Raise("APIError")

\* A mutant: the search treats an empty result as a failure.
SearchNotEmpty ==
    /\ AtWater("search")
    /\ \E ok \in BOOLEAN :
         IF ~ok THEN Raise("APIError")
         ELSE IF catalog = <<>> THEN Raise("NameError")
         ELSE IF StacSearch(catalog[1], archive, {"jrc-gsw"}, AreaOfInterest) = <<>>
         THEN Raise("NotFoundError")
         ELSE /\ items' = <<StacSearch(catalog[1], archive, {"jrc-gsw"},
                                       AreaOfInterest)>>
              /\ log' = Append(log, Event("query", "search", {}, <<"items">>))
              /\ pc' = pc + 1
              /\ UNCHANGED <<workflow, stmt, error, item, storageVars, elevVars, catalog, archive,
                             cog_assets, cmaps, i, src, asset_data, figure, probe, runs>>

\* jrc = catalog.search(...); items = jrc.item_collection()
Search ==
    /\ AtWater("search")
    /\ \E ok \in BOOLEAN :
         IF ~ok THEN Raise("APIError")
         ELSE IF catalog = <<>> THEN Raise("NameError")
         ELSE /\ items' = <<StacSearch(catalog[1], archive, {"jrc-gsw"},
                                       AreaOfInterest)>>
              /\ log' = Append(log, Event("query", "search", {}, <<"items">>))
              /\ pc' = pc + 1
              /\ UNCHANGED <<workflow, stmt, error, item, storageVars, elevVars, catalog, archive,
                             cog_assets, cmaps, i, src, asset_data, figure, probe, runs>>

\* A mutant: an empty result is passed over and the run goes on without an item.
SelectItemIfAny ==
    /\ AtWater("select_item")
    /\ IF items = <<>> THEN Raise("NameError")
       ELSE /\ item' = IF Len(items[1]) = 0 THEN <<>> ELSE <<items[1][1]>>
            /\ pc' = pc + 1
            /\ UNCHANGED <<workflow, stmt, error, log, storageVars, elevVars, catalog, archive, waterVars, probe, runs>>

\* item = items[0]
SelectItem ==
    /\ AtWater("select_item")
    /\ IF items = <<>> THEN Raise("NameError")
       ELSE IF Len(items[1]) = 0 THEN Raise("IndexError")
       ELSE /\ item' = <<items[1][1]>>
            /\ pc' = pc + 1
            /\ UNCHANGED <<workflow, stmt, error, log, storageVars, elevVars, catalog, archive, waterVars, probe, runs>>

\* cog_assets = [asset_key for asset_key, asset in item.assets.items()
\*               if asset.media_type == pystac.MediaType.COG]
CogAssets ==
    /\ AtWater("cog_assets")
    /\ IF item = <<>> THEN Raise("NameError")
       ELSE /\ cog_assets' =
                 LET a == item[1].assets
                     RECURSIVE Keep(_)
                     Keep(n) == IF n > Len(a) THEN <<>>
                                ELSE IF a[n].media_type = "COG"
                                     THEN <<a[n].key>> \o Keep(n + 1)
                                     ELSE Keep(n + 1)
                 IN  Keep(1)
            /\ pc' = pc + 1
            /\ UNCHANGED <<workflow, stmt, error, log, item, storageVars, elevVars, catalog, archive,
                           items, cmaps, i, src, asset_data, figure, probe, runs>>

\* with rasterio.open(item.assets[asset_key].href) as src:   (colormap loop)
CmapOpen ==
    /\ AtWater("cmaps_loop")
    /\ stmt = 0
    /\ i < Len(cog_assets)
    /\ \E ok \in BOOLEAN :
         IF ok
         THEN /\ src' = <<cog_assets[i + 1]>>
              /\ stmt' = 1
              /\ log' = Append(log, OpenEvent("rasterio.open", {<<"item">>},
                                              <<"src", cog_assets[i + 1]>>,
                                              item[1].signed))
              /\ UNCHANGED <<workflow, pc, error, item, storageVars, elevVars, catalog, archive, items,
                             cog_assets, cmaps, i, asset_data, figure, probe, runs>>
         ELSE Raise("RasterioIOError")

\* colormap_def = src.colormap(1); colormap = [...]; the file is closed at the
\* end of the block; cmaps[asset_key] = ListedColormap(colormap)
CmapStore ==
    /\ AtWater("cmaps_loop")
    /\ stmt = 1
    /\ cmaps' = Append(cmaps, [key |-> cog_assets[i + 1],
                               colors |-> ColorTable(Palette(FileOf(src[1])))])
    /\ src' = <<>>
    /\ i' = i + 1
    /\ stmt' = 0
    /\ log' = Append(log, Event("read", "colormap", {<<"src", cog_assets[i + 1]>>},
                                <<"cmap", cog_assets[i + 1]>>))
    /\ UNCHANGED <<workflow, pc, error, item, storageVars, elevVars, catalog, archive, items,
                   cog_assets, asset_data, figure, probe, runs>>

CmapLoopEnd ==
    /\ AtWater("cmaps_loop")
    /\ stmt = 0
    /\ i = Len(cog_assets)
    /\ i' = 0
    /\ pc' = pc + 1
    /\ UNCHANGED <<workflow, stmt, error, log, item, storageVars, elevVars, catalog, archive, items,
                   cog_assets, cmaps, src, asset_data, figure, probe, runs>>

\* fig = plt.figure(frameon=False, dpi=dpi)
MakeFigure ==
    /\ AtWater("figure")
    /\ figure' = <<>>
    /\ pc' = pc + 1
    /\ UNCHANGED <<workflow, stmt, error, log, item, storageVars, elevVars, catalog, archive, items,
                   cog_assets, cmaps, i, src, asset_data, probe, runs>>

\* with rasterio.open(item.assets[asset_key].href) as src:   (render loop)
RenderOpen ==
    /\ AtWater("render_loop")
    /\ stmt = 0
    /\ i < Len(cog_assets)
    /\ \E ok \in BOOLEAN :
         IF ok
         THEN /\ src' = <<cog_assets[i + 1]>>
              /\ stmt' = 1
              /\ log' = Append(log, OpenEvent("rasterio.open", {<<"item">>},
                                              <<"src", cog_assets[i + 1]>>,
                                              item[1].signed))
              /\ UNCHANGED <<workflow, pc, error, item, storageVars, elevVars, catalog, archive, items,
                             cog_assets, cmaps, i, asset_data, figure, probe, runs>>
         ELSE Raise("RasterioIOError")

\* asset_data, _ = rasterio.mask.mask(src, [area_of_interest], crop=True,
\* nodata=255); the file is closed at the end of the block.
RenderMask ==
    /\ AtWater("render_loop")
    /\ stmt = 1
    /\ LET out == Mask(SourcePixels(FileOf(src[1])), AreaOfInterest)
       IN  IF out = <<>> THEN Raise("ValueError")
           ELSE /\ asset_data' = <<[key |-> src[1], window |-> out[1].window,
                                    data |-> out[1].data]>>
                /\ src' = <<>>
                /\ stmt' = 2
                /\ log' = Append(log, Event("transform", "mask", {<<"src", src[1]>>},
                                            <<"asset_data", src[1]>>))
                /\ UNCHANGED <<workflow, pc, error, item, storageVars, elevVars, catalog, archive,
                               items, cog_assets, cmaps, i, figure, probe, runs>>

HasCmap(key) == \E n \in DOMAIN cmaps : cmaps[n].key = key

\* ax1 = fig.add_subplot(int(f"23{i+1}")); set_title; set_axis_off;
\* plt.imshow(asset_data[0], norm=Normalize(0, 255), cmap=cmaps[asset_key])
Imshow ==
    /\ AtWater("render_loop")
    /\ stmt = 2
    /\ IF AddSubplot(SubplotCode(i)) = <<>> THEN Raise("ValueError")
       ELSE IF ~HasCmap(cog_assets[i + 1]) THEN Raise("KeyError")
       ELSE /\ figure' = Append(figure, [cell |-> AddSubplot(SubplotCode(i))[1].cell,
                                         rows |-> AddSubplot(SubplotCode(i))[1].rows,
                                         cols |-> AddSubplot(SubplotCode(i))[1].cols,
                                         title |-> cog_assets[i + 1],
                                         data |-> asset_data[1],
                                         cmap |-> cog_assets[i + 1]])
            /\ log' = Append(log, Event("sink", "imshow",
                                        {<<"asset_data", asset_data[1].key>>}, <<>>))
            /\ i' = i + 1
            /\ stmt' = 0
            /\ UNCHANGED <<workflow, pc, error, item, storageVars, elevVars, catalog, archive, items,
                           cog_assets, cmaps, src, asset_data, probe, runs>>

RenderLoopEnd ==
    /\ AtWater("render_loop")
    /\ stmt = 0
    /\ i = Len(cog_assets)
    /\ pc' = pc + 1
    /\ UNCHANGED <<workflow, stmt, error, log, item, storageVars, elevVars, catalog, archive, waterVars, probe, runs>>

WaterNext ==
    \/ WaterClientOpen \/ Search \/ SelectItem \/ CogAssets
    \/ CmapOpen \/ CmapStore \/ CmapLoopEnd \/ MakeFigure
    \/ RenderOpen \/ RenderMask \/ Imshow \/ RenderLoopEnd

WaterInit ==
    /\ workflow = "water"
    /\ Blank
    /\ seeds = NoSeeds
    /\ container = EmptyContainer
    /\ container0 = container
    /\ bbox = Bbox(0)
    /\ archive \in WaterArchives
    /\ probe = <<>>

----
\* The elevation workflow.

ElevationProgram ==
    <<"Client.open", "get_child", "search", "items_low_res", "items_high_res",
      "low_res_data", "high_res_data", "subplots", "imshow_low", "imshow_high">>

\* The tiles of 3dep-seamless: tile t is one cell wide and lies t - 1 cells to
\* the right of the point; every tile is held at each resolution of `gsds`.
TileFootprint(t) ==
    [x0 |-> Point.x + t - 1, x1 |-> Point.x + t - 1,
     y0 |-> 1, y1 |-> 2 * MaxBuffer + 1, notch |-> FALSE]

TileItem(t, gsd) ==
    StacItem("3dep-" \o ToString(gsd) \o "-" \o ToString(t), "3dep-seamless",
             TileFootprint(t), gsd,
             <<[key |-> "data", media_type |-> "COG"],
               [key |-> "thumbnail", media_type |-> "PNG"]>>)

RECURSIVE TileItems(_, _)
TileItems(n, gsds) ==
    IF n = 0 THEN <<>>
    ELSE TileItems(n - 1, gsds) \o [k \in DOMAIN gsds |-> TileItem(n, gsds[k])]

GsdLists == {<<30, 10>>, <<10, 30>>, <<30, 10, 60>>, <<30>>}

\* What the STAC API may hold: an item of another collection over the point
\* and up to MaxTiles tiles.
ElevationArchives ==
    {<<OtherItem>> \o TileItems(n, gsds) : n \in 0..MaxTiles, gsds \in GsdLists}

\* A mutant: the filter keeps the items whose gsd is at most the value.
RECURSIVE ItemsWithGsdAtMost(_, _)
ItemsWithGsdAtMost(its, gsd) ==
    IF its = <<>> THEN <<>>
    ELSE IF Head(its).gsd <= gsd
         THEN <<ToDict(Head(its))>> \o ItemsWithGsdAtMost(Tail(its), gsd)
         ELSE ItemsWithGsdAtMost(Tail(its), gsd)

\* [item.to_dict() for item in items if item.properties["gsd"] == gsd]
RECURSIVE ItemsWithGsd(_, _)
ItemsWithGsd(its, gsd) ==
    IF its = <<>> THEN <<>>
    ELSE IF Head(its).gsd = gsd
         THEN <<ToDict(Head(its))>> \o ItemsWithGsd(Tail(its), gsd)
         ELSE ItemsWithGsd(Tail(its), gsd)

GsdLow == 30

GsdHigh == 10

\* stackstac: the default chunk size, in pixels.
ChunkSize == 1024

\* The pixels across a bounding box at the resolution of `gsd`: a cell is 0.2
\* degree, gsd 30 is 1 arc-second and gsd 10 is 1/3 arc-second.
PixelsAcross(bounds, gsd) == (bounds.x1 - bounds.x0 + 1) * (21600 \div gsd)

\* The chunks one item's asset is read in (at most MaxChunks in the model).
NChunks(px) == Min((px + ChunkSize - 1) \div ChunkSize, MaxChunks)

\* The assets stackstac.stack reads: those whose media type is a raster.
RasterAssets(feature) ==
    {k \in DOMAIN feature.assets : feature.assets[k].media_type = "COG"}

\* stackstac.stack(features, bounds=bounds): <<>> (ValueError) for an empty
\* list, else <<the lazy array>>: one entry on the time axis per item, one on
\* the band axis per raster asset.
Stack(features, bounds) ==
    IF features = <<>> THEN <<>>
    ELSE LET gsd == features[1].properties.gsd
             px == PixelsAcross(bounds, gsd)
         IN  <<[dims |-> <<"time", "band", "y", "x">>,
                shape |-> <<Len(features), Cardinality(RasterAssets(features[1])),
                            px, px>>,
                time |-> [k \in DOMAIN features |-> features[k].id]]>>

\* The chunk reads of a stack, in the order they are submitted.
RECURSIVE ChunkReads(_, _)
ChunkReads(features, n) ==
    IF features = <<>> THEN <<>>
    ELSE [c \in 1..n |-> [id |-> Head(features).id, chunk |-> c,
                          signed |-> Head(features).href_signed]]
         \o ChunkReads(Tail(features), n)

\* The positions of the axes of length other than 1.
RECURSIVE Kept(_, _)
Kept(shape, k) ==
    IF k > Len(shape) THEN <<>>
    ELSE IF shape[k] = 1 THEN Kept(shape, k + 1)
         ELSE <<k>> \o Kept(shape, k + 1)

\* da.squeeze(): the axes of length 1 are dropped.
Squeeze(da) ==
    LET keep == Kept(da.shape, 1)
    IN  [da EXCEPT !.dims = [k \in DOMAIN keep |-> da.dims[keep[k]]],
                   !.shape = [k \in DOMAIN keep |-> da.shape[keep[k]]]]

\* da.plot.imshow(ax=ax): a 2-D array is drawn as an image; a 3-D array is
\* drawn as a colour image when an axis other than y and x has length 3 or 4;
\* anything else is a ValueError (<<>>).
PlotImshow(da) ==
    IF Len(da.dims) = 2 THEN <<[kind |-> "2d", shape |-> da.shape]>>
    ELSE IF /\ Len(da.dims) = 3
            /\ \E k \in DOMAIN da.dims :
                   da.dims[k] \notin {"y", "x"} /\ da.shape[k] \in {3, 4}
         THEN <<[kind |-> "rgb", shape |-> da.shape]>>
         ELSE <<>>

AtElevation(name) ==
    /\ workflow = "elevation"
    /\ error = ""
    /\ pc \in 1..Len(ElevationProgram)
    /\ ElevationProgram[pc] = name

\* catalog = pystac_client.Client.open(..., modifier=sign_inplace)
ElevationClientOpen ==
    /\ AtElevation("Client.open")
    /\ \E ok \in BOOLEAN :
         IF ok
         THEN /\ catalog' = <<[modifier |-> Modifier]>>
              /\ pc' = pc + 1
              /\ UNCHANGED <<workflow, stmt, error, log, item, archive,
                             storageVars, waterVars, elevVars, probe, runs>>
         ELSE Raise("APIError")

\* threedep = catalog.get_child(id="3dep-seamless")
GetChild ==
    /\ AtElevation("get_child")
    /\ \E ok \in BOOLEAN :
         IF ok
         THEN /\ pc' = pc + 1
              /\ UNCHANGED <<workflow, stmt, error, log, item, catalog, archive,
                             storageVars, waterVars, elevVars, probe, runs>>
         ELSE Raise("APIError")

\* search = catalog.search(collections="3dep-seamless", bbox=bbox)
\* items = list(search.get_items())
ElevationSearch ==
    /\ AtElevation("search")
    /\ \E ok \in BOOLEAN :
         IF ~ok THEN Raise("APIError")
         ELSE IF catalog = <<>> THEN Raise("NameError")
         ELSE /\ items' = <<StacSearch(catalog[1], archive, {"3dep-seamless"},
                                       bbox)>>
              /\ log' = Append(log, Event("query", "search", {}, <<"items">>))
              /\ pc' = pc + 1
              /\ UNCHANGED <<workflow, stmt, error, item, catalog, archive,
                             storageVars, cog_assets, cmaps, i, src, asset_data,
                             figure, elevVars, probe, runs>>

\* items_low_res = [item.to_dict() for item in items if ... == 30]
FilterLowRes ==
    /\ AtElevation("items_low_res")
    /\ IF items = <<>> THEN Raise("NameError")
       ELSE /\ items_low_res' = <<ItemsWithGsd(items[1], GsdLow)>>
            /\ pc' = pc + 1
            /\ UNCHANGED <<workflow, stmt, error, log, item, catalog, archive,
                           storageVars, waterVars, items_high_res, low_res_data,
                           high_res_data, tasks, inflight, fetched, axes, bbox,
                           probe, runs>>

\* items_high_res = [item.to_dict() for item in items if ... == 10]
FilterHighRes ==
    /\ AtElevation("items_high_res")
    /\ IF items = <<>> THEN Raise("NameError")
       ELSE /\ items_high_res' = <<ItemsWithGsd(items[1], GsdHigh)>>
            /\ pc' = pc + 1
            /\ UNCHANGED <<workflow, stmt, error, log, item, catalog, archive,
                           storageVars, waterVars, items_low_res, low_res_data,
                           high_res_data, tasks, inflight, fetched, axes, bbox,
                           probe, runs>>

\* The statement at pc is one of the two stackstac statements.
AtStack == AtElevation("low_res_data") \/ AtElevation("high_res_data")

LowRes == ElevationProgram[pc] = "low_res_data"

StackInput == IF LowRes THEN items_low_res ELSE items_high_res

\* stackstac.stack(features, bounds=bbox).squeeze(): the lazy array is built;
\* .compute() hands its chunk reads to the scheduler.
StackBegin ==
    /\ AtStack
    /\ stmt = 0
    /\ IF StackInput = <<>> THEN Raise("NameError")
       ELSE LET s == Stack(StackInput[1], bbox)
            IN  IF s = <<>> THEN Raise("ValueError")
                ELSE /\ tasks' = ChunkReads(StackInput[1], NChunks(s[1].shape[4]))
                     /\ fetched' = {}
                     /\ stmt' = 1
                     /\ UNCHANGED <<workflow, pc, error, log, item, catalog,
                                    archive, storageVars, waterVars,
                                    items_low_res, items_high_res, low_res_data,
                                    high_res_data, inflight, axes, bbox, probe, runs>>

\* A worker thread of the scheduler starts the next chunk read.
FetchStart ==
    /\ AtStack
    /\ stmt = 1
    /\ tasks # <<>>
    /\ Cardinality(inflight) < MaxWorkers
    /\ inflight' = inflight \cup {Head(tasks)}
    /\ tasks' = Tail(tasks)
    /\ UNCHANGED <<workflow, pc, stmt, error, log, item, catalog, archive,
                   storageVars, waterVars, items_low_res, items_high_res,
                   low_res_data, high_res_data, fetched, axes, bbox, probe, runs>>

\* A chunk read ends.  When it fails, compute() raises at once and the reads
\* other threads are in the middle of run on to their end.
FetchEnd ==
    /\ workflow = "elevation"
    /\ \E t \in inflight, ok \in BOOLEAN :
         /\ inflight' = inflight \ {t}
         /\ fetched' = IF error = "" /\ ok THEN fetched \cup {t} ELSE fetched
         /\ error' = IF error = "" /\ ~ok THEN "RasterioIOError" ELSE error
         /\ UNCHANGED <<workflow, pc, stmt, log, item, catalog, archive,
                        storageVars, waterVars, items_low_res, items_high_res,
                        low_res_data, high_res_data, tasks, axes, bbox, probe, runs>>

\* A mutant: compute() returns without waiting for the reads in progress.
ComputeEndEarly ==
    /\ AtStack
    /\ stmt = 1
    /\ tasks = <<>>
    /\ LET w == IF LowRes THEN "low" ELSE "high"
           out == <<Squeeze(Stack(StackInput[1], bbox)[1])>>
       IN  /\ low_res_data' = IF LowRes THEN out ELSE low_res_data
           /\ high_res_data' = IF LowRes THEN high_res_data ELSE out
           /\ log' = log \o
                 <<OpenEvent("stackstac.compute", {<<"items">>}, <<"stack", w>>,
                             \A t \in fetched : t.signed),
                   Event("transform", "squeeze", {<<"stack", w>>}, <<w>>)>>
    /\ fetched' = {}
    /\ stmt' = 0
    /\ pc' = pc + 1
    /\ UNCHANGED <<workflow, error, item, catalog, archive, storageVars,
                   waterVars, items_low_res, items_high_res, tasks, inflight,
                   axes, bbox, probe, runs>>

\* Every chunk has been read: compute() returns the array.
ComputeEnd ==
    /\ AtStack
    /\ stmt = 1
    /\ tasks = <<>>
    /\ inflight = {}
    /\ LET w == IF LowRes THEN "low" ELSE "high"
           out == <<Squeeze(Stack(StackInput[1], bbox)[1])>>
       IN  /\ low_res_data' = IF LowRes THEN out ELSE low_res_data
           /\ high_res_data' = IF LowRes THEN high_res_data ELSE out
           /\ log' = log \o
                 <<OpenEvent("stackstac.compute", {<<"items">>}, <<"stack", w>>,
                             \A t \in fetched : t.signed),
                   Event("transform", "squeeze", {<<"stack", w>>}, <<w>>)>>
    /\ fetched' = {}
    /\ stmt' = 0
    /\ pc' = pc + 1
    /\ UNCHANGED <<workflow, error, item, catalog, archive, storageVars,
                   waterVars, items_low_res, items_high_res, tasks, inflight,
                   axes, bbox, probe, runs>>

\* fig, axes = plt.subplots(ncols=2, ...)
Subplots ==
    /\ AtElevation("subplots")
    /\ axes' = <<>>
    /\ pc' = pc + 1
    /\ UNCHANGED <<workflow, stmt, error, log, item, catalog, archive,
                   storageVars, waterVars, items_low_res, items_high_res,
                   low_res_data, high_res_data, tasks, inflight, fetched, bbox,
                   probe, runs>>

\* low_res_data.plot.imshow(ax=axes[0], add_colorbar=False)
ImshowLow ==
    /\ AtElevation("imshow_low")
    /\ IF low_res_data = <<>> THEN Raise("NameError")
       ELSE LET im == PlotImshow(low_res_data[1])
            IN  IF im = <<>> THEN Raise("ValueError")
                ELSE /\ axes' = Append(axes, [ax |-> 0, image |-> im[1],
                                              tiles |-> low_res_data[1].time])
                     /\ log' = Append(log, Event("sink", "imshow", {<<"low">>}, <<>>))
                     /\ pc' = pc + 1
                     /\ UNCHANGED <<workflow, stmt, error, item, catalog, archive,
                                    storageVars, waterVars, items_low_res,
                                    items_high_res, low_res_data, high_res_data,
                                    tasks, inflight, fetched, bbox, probe, runs>>

\* high_res_data.plot.imshow(ax=axes[1], add_colorbar=False)
ImshowHigh ==
    /\ AtElevation("imshow_high")
    /\ IF high_res_data = <<>> THEN Raise("NameError")
       ELSE LET im == PlotImshow(high_res_data[1])
            IN  IF im = <<>> THEN Raise("ValueError")
                ELSE /\ axes' = Append(axes, [ax |-> 1, image |-> im[1],
                                              tiles |-> high_res_data[1].time])
                     /\ log' = Append(log, Event("sink", "imshow", {<<"high">>}, <<>>))
                     /\ pc' = pc + 1
                     /\ UNCHANGED <<workflow, stmt, error, item, catalog, archive,
                                    storageVars, waterVars, items_low_res,
                                    items_high_res, low_res_data, high_res_data,
                                    tasks, inflight, fetched, bbox, probe, runs>>

ElevationNext ==
    \/ ElevationClientOpen \/ GetChild \/ ElevationSearch
    \/ FilterLowRes \/ FilterHighRes
    \/ StackBegin \/ FetchStart \/ FetchEnd \/ ComputeEnd
    \/ Subplots \/ ImshowLow \/ ImshowHigh

ElevationInit ==
    /\ workflow = "elevation"
    /\ Blank
    /\ seeds = NoSeeds
    /\ container = EmptyContainer
    /\ container0 = container
    /\ archive \in ElevationArchives
    /\ bbox \in {Bbox(b) : b \in 0..MaxBuffer}
    /\ probe = <<>>

----
\* The index computation on two bands of its own.

\* A 2-D array of one row holding `data`.
Band(data, label) ==
    [dims |-> <<"y", "x">>, shape |-> <<1, Len(data)>>, dtype |-> "float64",
     band |-> <<label>>, data |-> data, crs |-> "EPSG:26917",
     transform |-> <<549400, 1, 2987000, -1>>, name |-> "", mem |-> label]

BandData ==
    UNION {[1..n -> {FromInt(v) : v \in (-MaxSample)..MaxSample}] : n \in 1..MaxLen}

IndexInit ==
    /\ workflow = "index"
    /\ Blank
    /\ seeds = NoSeeds
    /\ container = EmptyContainer
    /\ container0 = container
    /\ bbox = Bbox(0)
    /\ archive = <<>>
    /\ \E a \in BandData, b \in BandData :
         probe = [a |-> Band(a, "a"), b |-> Band(b, "b"), called |-> FALSE,
                  ab |-> <<>>, ba |-> <<>>]

\* xrspatial.ndvi(a, b) and xrspatial.ndvi(b, a)
ApplyIndex ==
    /\ workflow = "index"
    /\ ~probe.called
    /\ probe' = [probe EXCEPT !.called = TRUE,
                              !.ab = Ndvi(probe.a, probe.b).ret,
                              !.ba = Ndvi(probe.b, probe.a).ret]
    /\ UNCHANGED <<workflow, pc, stmt, error, log, item, storageVars, elevVars, catalog, archive, waterVars, runs>>

SpecIndex == IndexInit /\ [][ApplyIndex]_vars

----
\* The masking step on a polygon of its own.

MaskInit ==
    /\ workflow = "mask"
    /\ Blank
    /\ seeds = NoSeeds
    /\ container = EmptyContainer
    /\ container0 = container
    /\ bbox = Bbox(0)
    /\ archive = <<>>
    /\ \E P \in Polygons :
         /\ WellFormed(P)
         /\ probe = [P |-> P, called |-> FALSE, out |-> <<>>]

\* rasterio.mask.mask(src, [P], crop=True, nodata=255)
ApplyMask ==
    /\ workflow = "mask"
    /\ ~probe.called
    /\ probe' = [probe EXCEPT !.called = TRUE,
                              !.out = Mask(SourcePixels(1), probe.P)]
    /\ UNCHANGED <<workflow, pc, stmt, error, log, item, storageVars, elevVars, catalog, archive, waterVars, runs>>

SpecMask == MaskInit /\ [][ApplyMask]_vars

----
Init == StorageInit \/ WaterInit \/ ElevationInit

Next == StorageNext \/ WaterNext \/ ElevationNext

Spec == Init /\ [][Next]_vars

----
\* The storage notebook run again, once a run has ended (at its last statement
\* or at the statement that raised): from its first cell, in the kernel of the
\* run before, whose names keep their values until they are assigned again, or
\* in a new kernel.  The container is the remote service's and stays as it is.
Rerun ==
    /\ workflow = "storage"
    /\ error # "" \/ pc > Len(StorageProgram)
    /\ runs.ended < MaxRuns
    /\ runs' = [ended |-> runs.ended + 1,
                uploaded |-> runs.uploaded
                             \/ pc > Index(StorageProgram, "upload_blob")]
    /\ pc' = 1
    /\ stmt' = 0
    /\ error' = ""
    /\ log' = <<>>
    /\ container0' = container
    /\ staged' = <<>>
    /\ \E restart \in BOOLEAN :
         IF restart
         THEN /\ catalog' = <<>>
              /\ item' = <<>>
              /\ ds' = <<>>
              /\ ds0' = <<>>
              /\ ndvi' = <<>>
              /\ buffer' = <<>>
              /\ blob_client' = <<>>
              /\ readback' = <<>>
         ELSE UNCHANGED <<catalog, item, ds, ds0, ndvi, buffer, blob_client,
                          readback>>
    /\ UNCHANGED <<workflow, archive, seeds, container, waterVars, elevVars,
                   probe>>

NextRerun == Next \/ Rerun

SpecRerun == Init /\ [][NextRerun]_vars

----
\* Properties of a workflow run.

\* Some step before the idx-th, of one of the given kinds, produced `name`.
Produced(name, idx, kinds) ==
    \E j \in 1..(idx - 1) : log[j].out = name /\ log[j].kind \in kinds

\* C1: in every run no asset is read before the catalog query has returned,
\* no transform (polygon mask, index computation, serialization) starts
\* before the data it consumes has been read, and no sink (render or upload)
\* starts before the transform that produces its input has finished.
C1_StepOrder ==
    \A idx \in DOMAIN log :
        /\ log[idx].kind = "read" =>
              \E j \in 1..(idx - 1) : log[j].kind = "query"
        /\ log[idx].kind = "transform" =>
              \A name \in log[idx].ins : Produced(name, idx, {"read", "transform"})
        /\ log[idx].kind = "sink" =>
              \A name \in log[idx].ins : Produced(name, idx, {"transform"})

C1_Witness ==
    /\ workflow = "water"
    /\ pc > Len(WaterProgram)
    /\ Len(figure) >= 2
    /\ \E a \in DOMAIN log, b \in DOMAIN log :
         a < b /\ log[a].kind = "sink" /\ log[b].kind = "read"

----
\* Properties of the storage workflow.

Uploaded ==
    /\ workflow = "storage"
    /\ pc > Index(StorageProgram, "upload_blob")

UploadFailed ==
    /\ workflow = "storage"
    /\ error # ""
    /\ pc = Index(StorageProgram, "upload_blob")
    /\ stmt = 1

\* C2: once upload_blob(buffer, overwrite=True) has succeeded, the object
\* stored under 'ndvi-wb.tif' is exactly the newly serialized raster, whether
\* or not an object was there before; and the upload never fails because the
\* name is already taken.
C2_UploadOverwrites ==
    /\ Uploaded => container[BlobName] = <<ToRaster(ndvi[1])>>
    /\ error # "ResourceExistsError"

C2_Witness ==
    /\ Uploaded
    /\ container0[BlobName] = <<OldBlob>>
    /\ container[BlobName] # container0[BlobName]

\* C3: after an upload of 'ndvi-wb.tif' has started and failed, a reader of the
\* location sees the object that was there before the upload began or no
\* object, never a partially written one.
C3_FailedUploadAtomic ==
    UploadFailed =>
        \/ container[BlobName] = <<>>
        \/ container[BlobName] = container0[BlobName]

C3_Witness ==
    /\ UploadFailed
    /\ Len(staged) >= 2
    /\ container0[BlobName] = <<OldBlob>>

Sample0(label, p) == ds0[1].data[BandIndex(ds0[1], label)][p]

\* C7: the raster computed under the name ndvi is the NDVI of the image: at
\* every pixel it equals (nir - red) / (nir + red) of the bands labelled
\* 'nir' and 'red'.
C7_NdviOfImage ==
    ndvi # <<>> =>
        \A p \in DOMAIN ndvi[1].data :
            ndvi[1].data[p] = FDiv(FSub(Sample0("nir", p), Sample0("red", p)),
                                   FAdd(Sample0("nir", p), Sample0("red", p)))

\* C10: computing the index leaves every sample of ds (all four bands) as it
\* was read, and the result lives in memory of its own.
C10_InputsUnchanged ==
    ndvi # <<>> =>
        /\ ds = ds0
        /\ ndvi[1].mem # ds[1].mem

C10_Witness ==
    /\ ndvi # <<>>
    /\ ndvi[1].data # ds[1].data[BandIndex(ds[1], "red")]
    /\ ndvi[1].data # ds[1].data[BandIndex(ds[1], "nir")]

----
\* Properties of the index computation (SpecIndex).

IndexCalled == workflow = "index" /\ probe.called

SameShape == probe.a.shape = probe.b.shape

\* The whole number a band of the probe holds at pixel p.
Val(band, p) == band.data[p][1]

\* C8: on two same-shaped bands a and b the index is, at every pixel,
\* (a - b) / (a + b) when a + b is not zero and not-a-number when it is; the
\* output has the shape of the inputs.
C8_NormalizedDifference ==
    (IndexCalled /\ SameShape) =>
        /\ probe.ab # <<>>
        /\ probe.ab[1].shape = probe.a.shape
        /\ DOMAIN probe.ab[1].data = DOMAIN probe.a.data
        /\ \A p \in DOMAIN probe.a.data :
             LET a == Val(probe.a, p)
                 b == Val(probe.b, p)
             IN  IF a + b = 0
                 THEN probe.ab[1].data[p] = NaN
                 ELSE probe.ab[1].data[p] = Frac(a - b, a + b)

C8_Witness ==
    /\ IndexCalled
    /\ SameShape
    /\ \E p \in DOMAIN probe.a.data :
         Val(probe.a, p) + Val(probe.b, p) = 0 /\ Val(probe.a, p) # 0
    /\ \E p \in DOMAIN probe.a.data :
         Val(probe.a, p) + Val(probe.b, p) # 0 /\ Val(probe.a, p) # Val(probe.b, p)

\* C9: the index is antisymmetric: at every pixel where a + b is not zero,
\* the index of (b, a) is the negation of the index of (a, b).
C9_Antisymmetric ==
    (IndexCalled /\ SameShape) =>
        \A p \in DOMAIN probe.a.data :
            Val(probe.a, p) + Val(probe.b, p) # 0 =>
                probe.ba[1].data[p] = FNeg(probe.ab[1].data[p])

C9_Witness ==
    /\ IndexCalled
    /\ SameShape
    /\ \E p \in DOMAIN probe.a.data :
         /\ Val(probe.a, p) + Val(probe.b, p) # 0
         /\ probe.ab[1].data[p][1] > 0
         /\ probe.ba[1].data[p][1] < 0

----
\* Properties of the masking step (SpecMask).

MaskCalled == workflow = "mask" /\ probe.called

\* The cells a block of pixels k0..k1 covers along one axis.
SpanCells(k0, k1) == (PixelSize * (k0 - 1) + 1)..(PixelSize * k1)

\* The pixels of the raster, along one axis, that meet the cells lo..hi.
PixelsMeeting(lo, hi) ==
    {k \in 1..RasterSize : \E cell \in PixelCells(k) : cell \in lo..hi}

InWindow(win, c, r) == c \in win.c0..win.c1 /\ r \in win.r0..win.r1

\* Outside the polygon every pixel of the output is the sentinel, inside it
\* every pixel keeps its source value.
OutsideSentinelInsideKept(P, out) ==
    \A c \in out.window.c0..out.window.c1, r \in out.window.r0..out.window.r1 :
        /\ ~Touches(P, c, r) => out.data[c][r] = Nodata
        /\ Covers(P, c, r) => out.data[c][r] = SourcePixels(1)[c][r]

\* C5, as stated: for any polygon P and raster R the masking step returns an
\* array whose extent is the bounding box of P, in which every pixel outside
\* P is 255 and every pixel inside P keeps its source value.
C5_ExtentIsBoundingBox ==
    MaskCalled =>
        /\ probe.out # <<>>
        /\ SpanCells(probe.out[1].window.c0, probe.out[1].window.c1)
             = probe.P.x0..probe.P.x1
        /\ SpanCells(probe.out[1].window.r0, probe.out[1].window.r1)
             = probe.P.y0..probe.P.y1
        /\ OutsideSentinelInsideKept(probe.P, probe.out[1])

\* C5, amended: for any polygon P whose bounding box overlaps the raster the
\* masking step returns an array whose extent is the block of the raster's
\* pixels that meet P's bounding box (the box rounded outward to whole pixels
\* and clipped to the raster), in which every pixel outside P is 255 and
\* every pixel inside P keeps its source value.
C5_ExtentIsPixelCover ==
    (MaskCalled /\ PixelsMeeting(probe.P.x0, probe.P.x1) # {}
                /\ PixelsMeeting(probe.P.y0, probe.P.y1) # {}) =>
        /\ probe.out # <<>>
        /\ probe.out[1].window.c0..probe.out[1].window.c1
             = PixelsMeeting(probe.P.x0, probe.P.x1)
        /\ probe.out[1].window.r0..probe.out[1].window.r1
             = PixelsMeeting(probe.P.y0, probe.P.y1)
        /\ OutsideSentinelInsideKept(probe.P, probe.out[1])

C5_Witness ==
    /\ MaskCalled
    /\ probe.out # <<>>
    /\ SpanCells(probe.out[1].window.r0, probe.out[1].window.r1)
         # probe.P.y0..probe.P.y1
    /\ \E c \in 1..RasterSize, r \in 1..RasterSize :
         /\ InWindow(probe.out[1].window, c, r)
         /\ ~Touches(probe.P, c, r)
         /\ probe.out[1].data[c][r] = Nodata
    /\ \E c \in 1..RasterSize, r \in 1..RasterSize :
         /\ InWindow(probe.out[1].window, c, r)
         /\ Covers(probe.P, c, r)
         /\ probe.out[1].data[c][r] # Nodata

PartlyCovered(P, c, r) == Touches(P, c, r) /\ ~Covers(P, c, r)

\* C6, as stated: a boundary pixel that is only partly covered by the polygon
\* is kept whenever any part of it intersects the polygon.
C6_InclusiveRasterization ==
    (MaskCalled /\ probe.out # <<>>) =>
        \A c \in 1..RasterSize, r \in 1..RasterSize :
            (InWindow(probe.out[1].window, c, r) /\ PartlyCovered(probe.P, c, r))
                => probe.out[1].data[c][r] = SourcePixels(1)[c][r]

\* C6, amended: a boundary pixel that is only partly covered by the polygon
\* is kept exactly when its centre lies inside the polygon, and is set to the
\* sentinel otherwise.
C6_CentreRasterization ==
    (MaskCalled /\ probe.out # <<>>) =>
        \A c \in 1..RasterSize, r \in 1..RasterSize :
            (InWindow(probe.out[1].window, c, r) /\ PartlyCovered(probe.P, c, r))
                => IF CentreInside(probe.P, c, r)
                   THEN probe.out[1].data[c][r] = SourcePixels(1)[c][r]
                   ELSE probe.out[1].data[c][r] = Nodata

C6_Witness ==
    /\ MaskCalled
    /\ probe.out # <<>>
    /\ \E c \in 1..RasterSize, r \in 1..RasterSize :
         /\ InWindow(probe.out[1].window, c, r)
         /\ PartlyCovered(probe.P, c, r)
         /\ ~CentreInside(probe.P, c, r)
         /\ probe.out[1].data[c][r] = Nodata
    /\ \E c \in 1..RasterSize, r \in 1..RasterSize :
         /\ InWindow(probe.out[1].window, c, r)
         /\ PartlyCovered(probe.P, c, r)
         /\ CentreInside(probe.P, c, r)
         /\ probe.out[1].data[c][r] = SourcePixels(1)[c][r]

----
\* Properties of the catalog search.

Searching == workflow \in {"water", "elevation"}

QueryCollection == IF workflow = "water" THEN "jrc-gsw" ELSE "3dep-seamless"

QueryFilter == IF workflow = "water" THEN AreaOfInterest ELSE bbox

\* The positions in the API's listing of the items the query is about.
Hits ==
    {k \in DOMAIN archive :
        /\ archive[k].collection = QueryCollection
        /\ \E cx \in archive[k].footprint.x0..archive[k].footprint.x1,
              cy \in archive[k].footprint.y0..archive[k].footprint.y1 :
              /\ InPolygon(archive[k].footprint, cx, cy)
              /\ InPolygon(QueryFilter, cx, cy)}

SearchReturned == Searching /\ items # <<>>

\* The position of the search in the program that is run.
SearchPc ==
    IF workflow = "water" THEN Index(WaterProgram, "search")
    ELSE Index(ElevationProgram, "search")

\* C11: a search with a collection identifier and a geographic filter returns
\* exactly the items of that collection whose footprint intersects the
\* filter, each once; when exactly one item intersects the filter the
\* returned sequence has length 1.
C11_SearchResult ==
    SearchReturned =>
        LET ids == {archive[k].id : k \in Hits}
        IN  /\ \A id \in ids :
                  Cardinality({j \in DOMAIN items[1] : items[1][j].id = id}) = 1
            /\ \A j \in DOMAIN items[1] : items[1][j].id \in ids
            /\ Cardinality(ids) = 1 => Len(items[1]) = 1

C11_Witness ==
    /\ SearchReturned
    /\ Cardinality(Hits) = 1
    /\ Len(archive) > 2
    /\ Len(items[1]) = 1

\* C12: a search whose filter intersects no item's footprint returns an empty
\* sequence and raises nothing: the run goes on to the next statement.
C12_EmptySearch ==
    (Searching /\ Hits = {}) =>
        /\ items # <<>> => items[1] = <<>>
        /\ (pc = SearchPc /\ error # "") => error = "APIError"

C12_Witness ==
    /\ Searching
    /\ Hits = {}
    /\ Len(archive) > 0
    /\ items = << <<>> >>
    /\ error = ""
    /\ pc = SearchPc + 1

----
\* Properties of failures, resources and credentials.

\* What a run has done: everything but the chunk reads still in progress.
progress ==
    <<workflow, pc, stmt, error, log, item, catalog, archive, storageVars,
      waterVars, items_low_res, items_high_res, low_res_data, high_res_data,
      tasks, fetched, axes, bbox>>

\* C13: a failure of a remote operation is neither retried nor recovered:
\* once a statement has raised, the run executes nothing more; in particular
\* nothing is uploaded after a failed read and nothing is read back after a
\* failed upload.
C13_NoRetry ==
    /\ [][error # "" => progress' = progress]_vars
    /\ []((workflow = "storage" /\ error # "") =>
            /\ pc <= Index(StorageProgram, "upload_blob") => readback = <<>>
            /\ pc < Index(StorageProgram, "upload_blob") => container = container0)

C13_Witness ==
    /\ workflow = "storage"
    /\ error = "RasterioIOError"
    /\ pc = Index(StorageProgram, "open_rasterio")
    /\ container = container0

\* A remote file is held open by the array read from it.
HoldsFile(da) == da # <<>> /\ da[1].mem = "file"

\* The run is between two operations: no statement is half done, and the run
\* is not inside the with io.BytesIO() block.
BetweenOperations ==
    /\ stmt = 0
    /\ ~(/\ workflow = "storage"
         /\ error = ""
         /\ pc > Index(StorageProgram, "BytesIO")
         /\ pc <= Index(StorageProgram, "with_exit"))

\* C14: between two operations no remote handle or buffer is open: not the
\* files of the rasterio.open blocks, not the BytesIO buffer, and not the
\* files behind the two rioxarray.open_rasterio calls.
C14_ResourcesReleased ==
    BetweenOperations =>
        /\ src = <<>>
        /\ buffer # <<>> => buffer[1].closed
        /\ ~HoldsFile(ds)
        /\ ~HoldsFile(readback)

\* C15: every asset href a run opens comes from an item that has passed
\* through the signing step: the items the client hands out, the dicts made
\* from them and the chunk reads made from those all carry a token.
C15_SignedBeforeRead ==
    /\ \A idx \in DOMAIN log :
          "signed" \in DOMAIN log[idx] => log[idx].signed
    /\ item # <<>> => item[1].signed
    /\ items # <<>> => \A k \in DOMAIN items[1] : items[1][k].signed
    /\ items_low_res # <<>> =>
          \A k \in DOMAIN items_low_res[1] : items_low_res[1][k].href_signed
    /\ items_high_res # <<>> =>
          \A k \in DOMAIN items_high_res[1] : items_high_res[1][k].href_signed
    /\ \A t \in inflight \cup fetched : t.signed

C15_Witness ==
    /\ workflow = "elevation"
    /\ \E idx \in DOMAIN log :
          log[idx].op = "stackstac.compute" /\ log[idx].signed
    /\ \E t \in inflight : t.signed

----
\* Properties of the elevation workflow.

\* The remote asset fetches in progress.
Fetches == Cardinality(inflight) + (IF src = <<>> THEN 0 ELSE 1)

\* C16, as stated: at no point of a run are two remote asset fetches in
\* progress at the same time.
C16_OneFetchAtATime == Fetches <= 1

\* The ids of the items a stackstac statement reads.
StackIds(features) ==
    IF features = <<>> THEN {}
    ELSE {features[1][k].id : k \in DOMAIN features[1]}

\* C16, amended: outside a compute() call at most one fetch is in progress;
\* the chunk reads of one compute() call may be in progress together, they all
\* belong to the stack of that call, and they have all ended when the call
\* returns.
C16_ConcurrentOnlyInCompute ==
    /\ inflight = {} => Fetches <= 1
    /\ inflight # {} =>
          /\ workflow = "elevation"
          /\ src = <<>>
          /\ pc \in DOMAIN ElevationProgram
          /\ ElevationProgram[pc] \in {"low_res_data", "high_res_data"}
          /\ stmt = 1
          /\ \A t \in inflight : t.id \in StackIds(StackInput)
    /\ (low_res_data # <<>> \/ high_res_data # <<>>) /\ stmt = 0 => inflight = {}

C16_Witness ==
    /\ workflow = "elevation"
    /\ error = ""
    /\ Cardinality(inflight) >= 2
    /\ low_res_data # <<>>

\* Every found item has one of the two resolutions, and there is more than
\* one tile of each.
MultiTile ==
    /\ workflow = "elevation"
    /\ items # <<>>
    /\ \A k \in DOMAIN items[1] : items[1][k].gsd \in {GsdLow, GsdHigh}
    /\ Cardinality({k \in DOMAIN items[1] : items[1][k].gsd = GsdLow}) > 1
    /\ Cardinality({k \in DOMAIN items[1] : items[1][k].gsd = GsdHigh}) > 1

\* C17: with more than one tile per resolution the filter, stack, squeeze,
\* compute and plot steps all complete, and one image per resolution is drawn
\* as in the single-tile case: no step raises by itself, and what is drawn is
\* a 2-D image.
C17_MultiTileWorks ==
    MultiTile =>
        /\ error \in {"", "APIError", "RasterioIOError"}
        /\ \A k \in DOMAIN axes : axes[k].image.kind = "2d"
        /\ pc > Len(ElevationProgram) => Len(axes) = 2

\* The positions, in search order, of the found items with the given gsd.
RECURSIVE PositionsWithGsd(_, _)
PositionsWithGsd(k, gsd) ==
    IF k > Len(items[1]) THEN <<>>
    ELSE IF items[1][k].gsd = gsd
         THEN <<k>> \o PositionsWithGsd(k + 1, gsd)
         ELSE PositionsWithGsd(k + 1, gsd)

IsListOf(features, gsd) ==
    LET pos == PositionsWithGsd(1, gsd)
    IN  /\ Len(features) = Len(pos)
        /\ \A n \in DOMAIN pos :
              /\ features[n].id = items[1][pos[n]].id
              /\ features[n].properties.gsd = gsd

Filtered ==
    /\ workflow = "elevation"
    /\ items # <<>>
    /\ items_low_res # <<>>
    /\ items_high_res # <<>>

\* C18: items_low_res holds exactly the found items whose gsd is 30 and
\* items_high_res exactly those whose gsd is 10, each in search order; no
\* item is in both, an item with any other gsd is in neither, and the two
\* lists together hold every found item exactly when every item has gsd 10
\* or 30.
C18_GsdFilter ==
    Filtered =>
        LET low == items_low_res[1]
            high == items_high_res[1]
            lowIds == {low[n].id : n \in DOMAIN low}
            highIds == {high[n].id : n \in DOMAIN high}
        IN  /\ IsListOf(low, 30)
            /\ IsListOf(high, 10)
            /\ lowIds \cap highIds = {}
            /\ \A k \in DOMAIN items[1] :
                  items[1][k].gsd \notin {10, 30} =>
                      items[1][k].id \notin lowIds \cup highIds
            /\ (Len(low) + Len(high) = Len(items[1]))
                  <=> (\A k \in DOMAIN items[1] : items[1][k].gsd \in {10, 30})

C18_Witness ==
    /\ Filtered
    /\ Len(items_low_res[1]) >= 2
    /\ Len(items_high_res[1]) >= 2
    /\ \E k \in DOMAIN items[1] : items[1][k].gsd \notin {10, 30}
    /\ items[1][1].gsd = 30

----
\* Properties of the surface-water workflow.

AfterStep(name) == workflow = "water" /\ pc > Index(WaterProgram, name)

\* The keys of the item's assets whose media type is COG.
CogKeysOf(it) ==
    {it.assets[k].key : k \in {j \in DOMAIN it.assets : it.assets[j].media_type = "COG"}}

\* The fraction c is the palette component v divided by 256, and lies in [0, 1).
IsScaled(c, v) ==
    /\ c[2] > 0
    /\ c[1] * 256 = v * c[2]
    /\ 0 <= c[1]
    /\ c[1] < c[2]

\* C19: after the colormap step cmaps has one entry for every COG asset of
\* the item and for no other key; each entry has exactly 256 colours, the
\* i-th being the asset's palette entry for sample value i with every
\* component divided by 256, so in [0, 1); and up to the end of the step no
\* pixel data has been read.
C19_Colormaps ==
    /\ AfterStep("cmaps_loop") =>
          /\ {cmaps[n].key : n \in DOMAIN cmaps} = CogKeysOf(item[1])
          /\ Len(cmaps) = Cardinality(CogKeysOf(item[1]))
          /\ \A n \in DOMAIN cmaps :
                /\ Len(cmaps[n].colors) = 256
                /\ \A v \in 0..255, comp \in 1..4 :
                      IsScaled(cmaps[n].colors[v + 1][comp],
                               Palette(FileOf(cmaps[n].key))[v][comp])
    /\ (workflow = "water" /\ pc <= Index(WaterProgram, "figure")) =>
          /\ asset_data = <<>>
          /\ \A idx \in DOMAIN log : log[idx].op # "mask"

C19_Witness ==
    /\ AfterStep("cmaps_loop")
    /\ Len(cmaps) >= 2
    /\ Len(item[1].assets) > Len(cmaps)

\* Every image drawn so far is the asset of its index, in the cell after its
\* index of a grid of 2 rows and 3 columns, with the colormap of its own key.
DrawnInOrder ==
    /\ \A k \in DOMAIN figure :
          /\ figure[k].cell = k
          /\ figure[k].rows = 2
          /\ figure[k].cols = 3
          /\ figure[k].title = cog_assets[k]
          /\ figure[k].data.key = cog_assets[k]
          /\ figure[k].cmap = cog_assets[k]
    /\ \A j \in DOMAIN figure, k \in DOMAIN figure :
          j # k => figure[j].cell # figure[k].cell

AtRenderLoop == workflow = "water" /\ pc = Index(WaterProgram, "render_loop")

\* C20, as stated: for an item with n COG assets the render loop performs n
\* iterations, each asset drawn in its own cell with its own colormap; the
\* loop itself never raises.
C20_DrawsEveryAsset ==
    workflow = "water" =>
        /\ DrawnInOrder
        /\ AtRenderLoop => error \in {"", "RasterioIOError"}
        /\ AfterStep("render_loop") => Len(figure) = Len(cog_assets)

\* C20, amended: an item with at most six COG assets has every asset drawn;
\* with more than six, the first six are drawn and the seventh iteration
\* raises ValueError.
C20_DrawsUpToSix ==
    workflow = "water" =>
        /\ DrawnInOrder
        /\ (AtRenderLoop /\ error \notin {"", "RasterioIOError"}) =>
              /\ error = "ValueError"
              /\ Len(cog_assets) > 6
              /\ Len(figure) = 6
        /\ AfterStep("render_loop") =>
              /\ Len(cog_assets) <= 6
              /\ Len(figure) = Len(cog_assets)

C20_Witness ==
    /\ AfterStep("render_loop")
    /\ Len(cog_assets) = 6
    /\ Len(figure) = 6

\* The statement at pc, when the storage run has not failed.
Running(names) ==
    /\ workflow = "storage"
    /\ error = ""
    /\ pc \in 1..Len(StorageProgram)
    /\ StorageProgram[pc] \in names

\* upload_blob is reading the buffer.
Uploading == Running({"upload_blob"}) /\ stmt = 1

\* The run has left the with block, at its end or by an exception.
LeftWith ==
    /\ workflow = "storage"
    /\ \/ pc > Index(StorageProgram, "with_exit")
       \/ error # "" /\ InWith

\* C21: the bytes uploaded are the whole serialization of the raster: after
\* to_raster has written and before upload_blob starts reading, the buffer
\* holds the serialization and its read position is 0; while upload_blob
\* reads, the buffer is open and the bytes read so far are the serialization
\* from its first byte up to the read position, so that the stream ends at
\* the last byte written; once the run has left the with block, by success or
\* by failure, the buffer is closed.
C21_WholeStreamUploaded ==
    /\ (Running({"get_blob_client", "upload_blob"}) /\ stmt = 0) =>
          /\ ~buffer[1].closed
          /\ buffer[1].data = ToRaster(ndvi[1])
          /\ buffer[1].pos = 0
    /\ Uploading =>
          /\ ~buffer[1].closed
          /\ buffer[1].data = ToRaster(ndvi[1])
          /\ Flatten(staged) = SubSeq(buffer[1].data, 1, buffer[1].pos)
    /\ (Running({"with_exit"}) /\ buffer # <<>>) =>
          /\ ~buffer[1].closed
          /\ buffer[1].pos = Len(buffer[1].data)
          /\ container[BlobName] = <<buffer[1].data>>
    /\ (LeftWith /\ buffer # <<>>) => buffer[1].closed

C21_Witness ==
    /\ Uploading
    /\ Len(staged) >= 1
    /\ buffer[1].pos > 0
    /\ buffer[1].pos < Len(buffer[1].data)

\* The surface-water search has returned an empty sequence.
EmptyResult == workflow = "water" /\ items = << <<>> >>

\* Some asset has been opened with rasterio.open.
AssetOpened == \E idx \in DOMAIN log : log[idx].op = "rasterio.open"

\* C22: in the surface-water workflow an asset is opened only after a search
\* that returned at least one item; after a search that returned an empty
\* sequence the run gets no further than item = items[0], which raises
\* IndexError: no item, asset list, colormap or figure is built and no file is
\* opened, and the run never reaches the end of the rendering.
C22_EmptyResultFails ==
    /\ (workflow = "water" /\ (AssetOpened \/ src # <<>>)) =>
          /\ items # <<>>
          /\ Len(items[1]) >= 1
    /\ EmptyResult =>
          /\ pc = Index(WaterProgram, "select_item")
          /\ error \in {"", "IndexError"}
          /\ item = <<>>
          /\ cog_assets = <<>>
          /\ cmaps = <<>>
          /\ asset_data = <<>>
          /\ figure = <<>>
          /\ src = <<>>
          /\ ~AssetOpened

C22_Witness ==
    /\ EmptyResult
    /\ Len(archive) > 0
    /\ error = "IndexError"
    /\ pc = Index(WaterProgram, "select_item")

----
\* Properties of runs one after the other (SpecRerun).

\* Some run, this one or an earlier one, has uploaded.
SomeRunUploaded == workflow = "storage" /\ (runs.uploaded \/ Uploaded)

\* The blob one run of the storage notebook writes for the asset with seeds s.
BlobOfOneRun(s) ==
    LET image == AsTypeFloat(AssignCoords(OpenRasterio(NaipAsset(s)), BandNames))
    IN  ToRaster(Ndvi(Sel(image, "red"), Sel(image, "nir")).ret[1])

\* C23: running the storage workflow again is idempotent on the container:
\* once some run has uploaded, the object under 'ndvi-wb.tif' is the one a
\* single run writes for the source item and no later step of that run or of
\* a later run changes the container, whether the later run starts in the
\* kernel of the run before or in a new one; and no run creates or changes
\* an object under another name.
C23_RerunIdempotent ==
    /\ [][SomeRunUploaded => container' = container]_vars
    /\ [](SomeRunUploaded => container[BlobName] = <<BlobOfOneRun(seeds)>>)
    /\ [](workflow = "storage" =>
            \A n \in BlobNames \ {BlobName} : container[n] = container0[n])

C23_Witness ==
    /\ Uploaded
    /\ runs.ended >= 2
    /\ runs.uploaded
    /\ container0[BlobName] = <<BlobOfOneRun(seeds)>>
    /\ container0[BlobName] # <<OldBlob>>

====
